---- MODULE Spec2Model ----
(***************************************************************************)
(* Model of the Restaurant Manager service worker (src/static/sw.js): the  *)
(* install / activate lifecycle, the fetch router and its three caching    *)
(* strategies (cacheFirst, networkFirst, networkFirstNavigation).          *)
(*                                                                         *)
(* An async function is modelled as a process that suspends at each await: *)
(* one action per resumption.  The code calls cache.put without awaiting   *)
(* it, so a put is an operation in flight of its own (pendingPuts) that    *)
(* settles in a later step.                                                *)
(*                                                                         *)
(* The page script (src/static/js/app.js) is modelled beside it, feature   *)
(* by feature, each with a specification of its own: the auto-refresh      *)
(* timer, debounce, the install prompt and the modals.                     *)
(*                                                                         *)
(* A URL pathname is a sequence of lexemes: "/", "." and words that hold   *)
(* neither of those two characters; the pathname is their concatenation.   *)
(* A text body that is inspected is a sequence of text fragments.          *)
(***************************************************************************)
EXTENDS Naturals, Sequences, FiniteSets, TLC

(* ---------------------------------------------------------------------- *)
(* Bounds of the model                                                     *)
(* ---------------------------------------------------------------------- *)

\* Number of fetch events dispatched in one run (each has its own handler).
MaxReq == 2

\* Number of cache stores left behind by earlier versions or other scripts.
MaxOldCaches == 2

(* ---------------------------------------------------------------------- *)
(* Program constants                                                       *)
(* ---------------------------------------------------------------------- *)

CACHE_NAME == "restaurant-manager-v1"

PRECACHE_URLS ==
  << <<"/">>,
     <<"/", "tables">>,
     <<"/", "menu">>,
     <<"/", "orders">>,
     <<"/", "static", "/", "css", "/", "style", ".", "css">>,
     <<"/", "static", "/", "js", "/", "app", ".", "js">>,
     <<"/", "static", "/", "manifest", ".", "json">>,
     <<"/", "static", "/", "icons", "/", "icon-192", ".", "png">>,
     <<"/", "static", "/", "icons", "/", "icon-512", ".", "png">> >>

\* The offline page, as the sequence of its tags and texts (the head's meta
\* and style elements and the layout divs are left out).
OFFLINE_HTML ==
  << "<!DOCTYPE html>",
     "<html lang=\"en\">",
     "<title>", "Offline - Restaurant Manager", "</title>",
     "<h1>", "You're Offline", "</h1>",
     "<p>",
     "It looks like you've lost your internet connection. Some features may be unavailable until you reconnect.",
     "</p>",
     "<button onclick=\"window.location.reload()\">", "Try Again", "</button>",
     "</html>" >>

\* The alternatives of the regular expression of isStaticAsset (woff2? is
\* written out as woff and woff2).
StaticExtensions ==
  {"css", "js", "png", "jpg", "jpeg", "gif", "svg", "ico",
   "woff", "woff2", "ttf", "eot"}

API_PREFIX == <<"/", "api", "/">>

\* The self.location.origin of the worker.
SelfOrigin == "https://restaurant.example"
OtherOrigin == "https://cdn.example"

(* ---------------------------------------------------------------------- *)
(* Requests and responses                                                  *)
(* ---------------------------------------------------------------------- *)

AppJs == <<"/", "static", "/", "js", "/", "app", ".", "js">>
OrdersPage == <<"/", "orders">>
ApiOrders == <<"/", "api", "/", "orders">>

Methods == {"GET", "POST"}
Modes == {"navigate", "cors"}

Request(origin, pathname, mode, method) ==
  [origin |-> origin, pathname |-> pathname, mode |-> mode, method |-> method]

\* The requests the pages issue in the strategy specification: one or two of
\* each class, with a read and a write where the method matters.
Requests ==
  { Request(SelfOrigin, AppJs, "cors", "GET"),
    Request(SelfOrigin, ApiOrders, "cors", "GET"),
    Request(SelfOrigin, ApiOrders, "cors", "POST"),
    Request(SelfOrigin, OrdersPage, "navigate", "GET"),
    Request(SelfOrigin, OrdersPage, "navigate", "POST"),
    Request(SelfOrigin, OrdersPage, "cors", "GET"),
    Request(OtherOrigin, AppJs, "cors", "GET") }

NoRequest == Request("", << >>, "", "")

Response(status, contentType, body) ==
  [status |-> status, contentType |-> contentType, body |-> body]

\* The value undefined where a response is expected (a cache miss).
Undefined == Response(0, "", << >>)

\* Response.ok
Ok(response) == response.status \in 200..299

\* What the origin's server answers: the resource in one of two versions,
\* or an error page.
Bodies == {<<"v1">>, <<"v2">>}

\* What a fetch that resolves can resolve with.
NetworkResponses ==
  { Response(200, "server", b) : b \in Bodies }
    \cup { Response(404, "server", <<"Not Found">>) }

\* response.clone(): a second response with the same status, headers, body.
Clone(response) ==
  Response(response.status, response.contentType, response.body)

\* JSON.stringify of an object with string values, as the sequence of the
\* JSON tokens of its output.
JSONStringify(obj, keys) ==
  LET Member(k) == <<"\"" \o k \o "\"", ":", "\"" \o obj[k] \o "\"">>
      RECURSIVE Members(_)
      Members(n) ==
        IF n = 0 THEN << >>
        ELSE IF n = 1 THEN Member(keys[1])
        ELSE Members(n - 1) \o <<",">> \o Member(keys[n])
  IN <<"{">> \o Members(Len(keys)) \o <<"}">>

(* ---------------------------------------------------------------------- *)
(* CacheStorage: the stores in creation order, each a map from URL to the  *)
(* stored response                                                         *)
(* ---------------------------------------------------------------------- *)

Key(request) == [origin |-> request.origin, pathname |-> request.pathname]

EmptyEntries == [k \in {} |-> Undefined]

NewCache(name) == [name |-> name, entries |-> EmptyEntries]

CacheNames(cs) == { cs[n].name : n \in 1..Len(cs) }

\* caches.open(name): the store is created when it does not exist.
CachesOpen(cs, name) ==
  IF name \in CacheNames(cs) THEN cs ELSE Append(cs, NewCache(name))

\* caches.delete(name)
CachesDelete(cs, name) == SelectSeq(cs, LAMBDA c : c.name # name)

\* cache.match(request, { ignoreMethod: true })
CacheMatch_IgnoreMethod(cache, request) ==
  IF Key(request) \in DOMAIN cache.entries THEN cache.entries[Key(request)]
  ELSE Undefined

\* cache.match(request): a request whose method is not GET matches nothing.
CacheMatch(cache, request) ==
  IF request.method # "GET" THEN Undefined
  ELSE IF Key(request) \in DOMAIN cache.entries THEN cache.entries[Key(request)]
  ELSE Undefined

\* caches.match(request): the first store, in creation order, with a match.
CachesMatch(cs, request) ==
  LET hits == { n \in 1..Len(cs) : CacheMatch(cs[n], request) # Undefined }
  IN IF hits = {} THEN Undefined
     ELSE CacheMatch(cs[CHOOSE n \in hits : \A m \in hits : n <= m], request)

\* A put that leaves an entry that exists as it is (first write wins).
CachePut_KeepExisting(cs, name, request, response) ==
  IF request.method # "GET" THEN cs
  ELSE [ n \in 1..Len(cs) |->
           IF cs[n].name # name THEN cs[n]
           ELSE [ cs[n] EXCEPT !.entries =
                    [ k \in DOMAIN cs[n].entries \cup {Key(request)} |->
                        IF k \in DOMAIN cs[n].entries THEN cs[n].entries[k]
                        ELSE response ] ] ]

\* The effect of a cache.put(request, response) that settles on the store
\* called name: a request whose method is not GET is rejected with a
\* TypeError and nothing is written.
CachePut(cs, name, request, response) ==
  IF request.method # "GET" THEN cs
  ELSE [ n \in 1..Len(cs) |->
           IF cs[n].name # name THEN cs[n]
           ELSE [ cs[n] EXCEPT !.entries =
                    [ k \in DOMAIN cs[n].entries \cup {Key(request)} |->
                        IF k = Key(request) THEN response
                        ELSE cs[n].entries[k] ] ] ]

(* ---------------------------------------------------------------------- *)
(* Routing                                                                 *)
(* ---------------------------------------------------------------------- *)

StartsWith(pathname, prefix) ==
  /\ Len(pathname) >= Len(prefix)
  /\ SubSeq(pathname, 1, Len(prefix)) = prefix

\* /\.(?:css|js|png|jpg|jpeg|gif|svg|ico|woff2?|ttf|eot)$/.test(pathname)
isStaticAsset(pathname) ==
  /\ Len(pathname) >= 2
  /\ pathname[Len(pathname) - 1] = "."
  /\ pathname[Len(pathname)] \in StaticExtensions

\* The fetch listener with the return after the API branch missing.
FetchListener_NoReturn(request) ==
  IF request.origin # SelfOrigin THEN << >>
  ELSE (IF StartsWith(request.pathname, API_PREFIX) THEN <<"networkFirst">>
        ELSE << >>)
       \o (IF isStaticAsset(request.pathname) THEN <<"cacheFirst">>
           ELSE IF request.mode = "navigate" THEN <<"networkFirstNavigation">>
           ELSE <<"networkFirst">>)

\* The fetch listener with the test of the extension before the test of
\* the API prefix.
FetchListener_StaticFirst(request) ==
  IF request.origin # SelfOrigin THEN << >>
  ELSE IF isStaticAsset(request.pathname) THEN <<"cacheFirst">>
  ELSE IF StartsWith(request.pathname, API_PREFIX) THEN <<"networkFirst">>
  ELSE IF request.mode = "navigate" THEN <<"networkFirstNavigation">>
  ELSE <<"networkFirst">>

\* The fetch listener: the strategies it passes to event.respondWith, in the
\* order of the calls (none for a request it leaves alone).
FetchListener(request) ==
  IF request.origin # SelfOrigin THEN << >>
  ELSE IF StartsWith(request.pathname, API_PREFIX) THEN <<"networkFirst">>
  ELSE IF isStaticAsset(request.pathname) THEN <<"cacheFirst">>
  ELSE IF request.mode = "navigate" THEN <<"networkFirstNavigation">>
  ELSE <<"networkFirst">>

(* ---------------------------------------------------------------------- *)
(* State                                                                   *)
(* ---------------------------------------------------------------------- *)

VARIABLES
  caches,            \* the CacheStorage of the origin
  swState,           \* where the worker is in its install / activate life
  precache,          \* per precache URL: "idle", "pending", "added", "failed"
  skipWaitingCalls,  \* number of calls of self.skipWaiting()
  cacheNames,        \* what caches.keys() resolved with in activate
  deleting,          \* names whose caches.delete() is in flight
  claimed,           \* number of calls of self.clients.claim()
  h,                 \* the fetch events and their handlers
  pendingPuts        \* cache.put calls that have not settled yet

\* The state of the page script (src/static/js/app.js), which runs in the
\* page and shares nothing with the worker.
VARIABLES
  autoRefreshInterval,  \* the interval ID, or Null
  autoRefreshCallback,  \* the callback of each tick, or NoCallback
  intervals,            \* the live interval timers this module created
  nextTimerId,          \* the ID the browser gives the next timer
  documentHidden,       \* document.hidden
  navigatorOnLine,      \* navigator.onLine
  lastCall,             \* the most recent call of the page and its result
  startedWith,          \* the callback of the most recent startAutoRefresh
  lastTick,             \* the most recent tick and what it invoked
  delay,                \* the delay of the debounced function
  timerId,              \* the timeout ID of the debounced function, or Null
  timeouts,             \* the timeouts that are pending
  now,                  \* the time, in units of the timer clock
  quiet,                \* what happened since the most recent debounced call
  deferredInstallPrompt,  \* the captured beforeinstallprompt event, or Null
  nextPromptEvent,      \* the number of the next beforeinstallprompt event
  prompts,              \* per event: the number of calls of its prompt()
  userChoice,           \* per event: what its userChoice promise resolved with
  installCalls,         \* the calls of promptInstall and where each stands
  activeModals,         \* the modal overlays that have the class 'active'
  bodyOverflow,         \* document.body.style.overflow
  animationFrames,      \* the overlays whose focus callback is scheduled
  focused               \* the overlay that holds the focused element

refreshVars ==
  << autoRefreshInterval, autoRefreshCallback, intervals, documentHidden,
     navigatorOnLine, lastCall, startedWith, lastTick >>

debounceVars == << delay, timerId, timeouts, now, quiet >>

installVars ==
  << deferredInstallPrompt, nextPromptEvent, prompts, userChoice, installCalls >>

modalVars == << activeModals, bodyOverflow, animationFrames, focused >>

pageVars ==
  << nextTimerId, refreshVars, debounceVars, installVars, modalVars >>

swVars ==
  << caches, swState, precache, skipWaitingCalls, cacheNames, deleting,
     claimed, h, pendingPuts >>

vars == << swVars, pageVars >>

lifecycleVars ==
  << swState, precache, skipWaitingCalls, cacheNames, deleting, claimed >>

Slots == 1..MaxReq

\* A fetch event nobody has dispatched yet.
IdleSlot ==
  [ request |-> NoRequest,
    pc |-> "idle",
    respondWith |-> << >>,        \* the strategies passed to respondWith
    fetches |-> 0,                \* calls of fetch(request)
    fetched |-> "no",             \* "no", "pending", "resolved", "threw"
    networkResponse |-> Undefined,
    put |-> FALSE,                \* cache.put was called
    result |-> Undefined,         \* what the strategy's promise resolved with
    from |-> "none",              \* "cache", "network", "synthetic"
    rejected |-> FALSE,           \* the strategy's promise rejected
    seen |-> {} ]                 \* the events answered before this one began

\* The strategy the listener called for an event ("none" before the event
\* and for a request it leaves alone).
StrategyOf(slot) ==
  IF slot.respondWith = << >> THEN "none" ELSE Head(slot.respondWith)

Strategy(i) == StrategyOf(h[i])

Done(i) == h[i].pc = "done"

\* The synthetic responses of the three strategies.
AssetUnavailable ==
  Response(503, "text/plain", <<"Offline ", "U+2014", " asset unavailable">>)

OfflineJson ==
  Response(503, "application/json",
           JSONStringify([error |-> "You are offline and no cached data is available."],
                         <<"error">>))

OfflinePage == Response(503, "text/html", OFFLINE_HTML)

\* return response: the strategy's promise resolves.
Return(i, response, from) ==
  [ h EXCEPT ![i].pc = "done", ![i].result = response, ![i].from = from ]

(* ---------------------------------------------------------------------- *)
(* Fetch events                                                            *)
(* ---------------------------------------------------------------------- *)

\* The fetch listener without the test of the origin.
FetchEvent_AnyOrigin(i, request) ==
  /\ swState = "activated"
  /\ h[i].pc = "idle"
  /\ \A j \in Slots : j < i => h[j].pc # "idle"
  /\ LET calls == FetchListener(
                    [request EXCEPT !.origin = SelfOrigin])
         seen == { j \in Slots : h[j].pc \in {"done", "passthrough"} }
     IN h' = [ h EXCEPT ![i] =
                 [ @ EXCEPT
                     !.request = request,
                     !.respondWith = calls,
                     !.seen = seen,
                     !.pc = IF Head(calls) = "cacheFirst" THEN "match"
                            ELSE "fetch",
                     !.fetches = IF Head(calls) # "cacheFirst" THEN 1 ELSE 0,
                     !.fetched = IF Head(calls) # "cacheFirst"
                                 THEN "pending" ELSE "no" ] ]
  /\ UNCHANGED << caches, pendingPuts, lifecycleVars, pageVars >>

\* The fetch listener runs for a request: it returns at once for another
\* origin; otherwise it calls a strategy, which runs to its first await
\* (caches.match for cacheFirst, fetch for the other two).
FetchEvent(i, request) ==
  /\ swState = "activated"
  /\ h[i].pc = "idle"
  /\ \A j \in Slots : j < i => h[j].pc # "idle"
  /\ LET calls == FetchListener(request)
         seen == { j \in Slots : h[j].pc \in {"done", "passthrough"} }
     IN h' = [ h EXCEPT ![i] =
                 [ @ EXCEPT
                     !.request = request,
                     !.respondWith = calls,
                     !.seen = seen,
                     !.pc = IF calls = << >> THEN "passthrough"
                            ELSE IF Head(calls) = "cacheFirst" THEN "match"
                            ELSE "fetch",
                     !.fetches = IF calls # << >> /\ Head(calls) # "cacheFirst"
                                 THEN 1 ELSE 0,
                     !.fetched = IF calls # << >> /\ Head(calls) # "cacheFirst"
                                 THEN "pending" ELSE "no" ] ]
  /\ UNCHANGED << caches, pendingPuts, lifecycleVars, pageVars >>

\* cacheFirst that refreshes the entry from the network on a hit.
CacheFirstMatched_Revalidate(i) ==
  /\ h[i].pc = "match"
  /\ Strategy(i) = "cacheFirst"
  /\ LET cachedResponse == CachesMatch(caches, h[i].request)
     IN IF cachedResponse # Undefined
        THEN h' = [ Return(i, cachedResponse, "cache") EXCEPT
                      ![i].fetches = @ + 1 ]
        ELSE h' = [ h EXCEPT ![i].pc = "fetch",
                             ![i].fetches = @ + 1,
                             ![i].fetched = "pending" ]
  /\ UNCHANGED << caches, pendingPuts, lifecycleVars, pageVars >>

\* cacheFirst, after await caches.match(request).
CacheFirstMatched(i) ==
  /\ h[i].pc = "match"
  /\ Strategy(i) = "cacheFirst"
  /\ LET cachedResponse == CachesMatch(caches, h[i].request)
     IN IF cachedResponse # Undefined
        THEN h' = Return(i, cachedResponse, "cache")
        ELSE h' = [ h EXCEPT ![i].pc = "fetch",
                             ![i].fetches = @ + 1,
                             ![i].fetched = "pending" ]
  /\ UNCHANGED << caches, pendingPuts, lifecycleVars, pageVars >>

\* cacheFirst without the test of networkResponse.ok.
CacheFirstFetched_AnyStatus(i, networkResponse) ==
  /\ h[i].pc = "fetch"
  /\ Strategy(i) = "cacheFirst"
  /\ h' = [ h EXCEPT ![i].pc = "open",
                     ![i].fetched = "resolved",
                     ![i].networkResponse = networkResponse ]
  /\ UNCHANGED << caches, pendingPuts, lifecycleVars, pageVars >>

\* cacheFirst, after await fetch(request) resolved.
CacheFirstFetched(i, networkResponse) ==
  /\ h[i].pc = "fetch"
  /\ Strategy(i) = "cacheFirst"
  /\ IF Ok(networkResponse)
     THEN h' = [ h EXCEPT ![i].pc = "open",
                          ![i].fetched = "resolved",
                          ![i].networkResponse = networkResponse ]
     ELSE h' = [ Return(i, networkResponse, "network") EXCEPT
                   ![i].fetched = "resolved",
                   ![i].networkResponse = networkResponse ]
  /\ UNCHANGED << caches, pendingPuts, lifecycleVars, pageVars >>

\* cacheFirst, after await caches.open(CACHE_NAME): cache.put is called and
\* not awaited, and the network response is returned.
CacheFirstOpened(i) ==
  /\ h[i].pc = "open"
  /\ Strategy(i) = "cacheFirst"
  /\ caches' = CachesOpen(caches, CACHE_NAME)
  /\ pendingPuts' = pendingPuts \cup
       { [ by |-> i, cache |-> CACHE_NAME, request |-> h[i].request,
           response |-> Clone(h[i].networkResponse) ] }
  /\ h' = [ Return(i, h[i].networkResponse, "network") EXCEPT ![i].put = TRUE ]
  /\ UNCHANGED << lifecycleVars, pageVars >>

\* cacheFirst without the try / catch: the error of fetch propagates.
CacheFirstFetchFailed_Propagates(i) ==
  /\ h[i].pc = "fetch"
  /\ Strategy(i) = "cacheFirst"
  /\ h' = [ h EXCEPT ![i].pc = "done", ![i].fetched = "threw",
                      ![i].rejected = TRUE ]
  /\ UNCHANGED << caches, pendingPuts, lifecycleVars, pageVars >>

\* cacheFirst, after await fetch(request) threw: the catch block.
CacheFirstFetchFailed(i) ==
  /\ h[i].pc = "fetch"
  /\ Strategy(i) = "cacheFirst"
  /\ h' = [ Return(i, AssetUnavailable, "synthetic") EXCEPT ![i].fetched = "threw" ]
  /\ UNCHANGED << caches, pendingPuts, lifecycleVars, pageVars >>

\* networkFirst that prefers the cached copy to an error response.
NetworkFirstFetched_StaleIfError(i, networkResponse) ==
  /\ h[i].pc = "fetch"
  /\ Strategy(i) = "networkFirst"
  /\ IF h[i].request.method = "GET" /\ Ok(networkResponse)
     THEN h' = [ h EXCEPT ![i].pc = "open",
                          ![i].fetched = "resolved",
                          ![i].networkResponse = networkResponse ]
     ELSE h' = [ (IF CachesMatch(caches, h[i].request) # Undefined
                  THEN Return(i, CachesMatch(caches, h[i].request), "cache")
                  ELSE Return(i, networkResponse, "network")) EXCEPT
                   ![i].fetched = "resolved",
                   ![i].networkResponse = networkResponse ]
  /\ UNCHANGED << caches, pendingPuts, lifecycleVars, pageVars >>

\* networkFirst without the test of the request method.
NetworkFirstFetched_AnyMethod(i, networkResponse) ==
  /\ h[i].pc = "fetch"
  /\ Strategy(i) = "networkFirst"
  /\ IF Ok(networkResponse)
     THEN h' = [ h EXCEPT ![i].pc = "open",
                          ![i].fetched = "resolved",
                          ![i].networkResponse = networkResponse ]
     ELSE h' = [ Return(i, networkResponse, "network") EXCEPT
                   ![i].fetched = "resolved",
                   ![i].networkResponse = networkResponse ]
  /\ UNCHANGED << caches, pendingPuts, lifecycleVars, pageVars >>

\* networkFirst, after await fetch(request) resolved.
NetworkFirstFetched(i, networkResponse) ==
  /\ h[i].pc = "fetch"
  /\ Strategy(i) = "networkFirst"
  /\ IF h[i].request.method = "GET" /\ Ok(networkResponse)
     THEN h' = [ h EXCEPT ![i].pc = "open",
                          ![i].fetched = "resolved",
                          ![i].networkResponse = networkResponse ]
     ELSE h' = [ Return(i, networkResponse, "network") EXCEPT
                   ![i].fetched = "resolved",
                   ![i].networkResponse = networkResponse ]
  /\ UNCHANGED << caches, pendingPuts, lifecycleVars, pageVars >>

\* networkFirst, after await caches.open(CACHE_NAME): cache.put is called
\* and not awaited, and the network response is returned.
NetworkFirstOpened(i) ==
  /\ h[i].pc = "open"
  /\ Strategy(i) = "networkFirst"
  /\ caches' = CachesOpen(caches, CACHE_NAME)
  /\ pendingPuts' = pendingPuts \cup
       { [ by |-> i, cache |-> CACHE_NAME, request |-> h[i].request,
           response |-> Clone(h[i].networkResponse) ] }
  /\ h' = [ Return(i, h[i].networkResponse, "network") EXCEPT ![i].put = TRUE ]
  /\ UNCHANGED << lifecycleVars, pageVars >>

\* networkFirst that tries the network once more when the fetch threw.
NetworkFirstFetchFailed_Retry(i) ==
  /\ h[i].pc = "fetch"
  /\ Strategy(i) = "networkFirst"
  /\ IF h[i].fetches < 2
     THEN h' = [ h EXCEPT ![i].fetches = @ + 1 ]
     ELSE h' = [ h EXCEPT ![i].pc = "fallback", ![i].fetched = "threw" ]
  /\ UNCHANGED << caches, pendingPuts, lifecycleVars, pageVars >>

\* networkFirst, after await fetch(request) threw: the catch block calls
\* caches.match(request).
NetworkFirstFetchFailed(i) ==
  /\ h[i].pc = "fetch"
  /\ Strategy(i) = "networkFirst"
  /\ h' = [ h EXCEPT ![i].pc = "fallback", ![i].fetched = "threw" ]
  /\ UNCHANGED << caches, pendingPuts, lifecycleVars, pageVars >>

\* networkFirst whose catch block throws the error again on a cache miss.
NetworkFirstFallback_Rethrow(i) ==
  /\ h[i].pc = "fallback"
  /\ Strategy(i) = "networkFirst"
  /\ LET cachedResponse == CachesMatch(caches, h[i].request)
     IN IF cachedResponse # Undefined
        THEN h' = Return(i, cachedResponse, "cache")
        ELSE h' = [ h EXCEPT ![i].pc = "done", ![i].rejected = TRUE ]
  /\ UNCHANGED << caches, pendingPuts, lifecycleVars, pageVars >>

\* networkFirst whose catch block does not look into the cache.
NetworkFirstFallback_NoCache(i) ==
  /\ h[i].pc = "fallback"
  /\ Strategy(i) = "networkFirst"
  /\ h' = Return(i, OfflineJson, "synthetic")
  /\ UNCHANGED << caches, pendingPuts, lifecycleVars, pageVars >>

\* networkFirst, after await caches.match(request) in the catch block.
NetworkFirstFallback(i) ==
  /\ h[i].pc = "fallback"
  /\ Strategy(i) = "networkFirst"
  /\ LET cachedResponse == CachesMatch(caches, h[i].request)
     IN IF cachedResponse # Undefined
        THEN h' = Return(i, cachedResponse, "cache")
        ELSE h' = Return(i, OfflineJson, "synthetic")
  /\ UNCHANGED << caches, pendingPuts, lifecycleVars, pageVars >>

\* networkFirstNavigation that stores whatever the network answered.
NavigationFetched_AnyStatus(i, networkResponse) ==
  /\ h[i].pc = "fetch"
  /\ Strategy(i) = "networkFirstNavigation"
  /\ h' = [ h EXCEPT ![i].pc = "open",
                     ![i].fetched = "resolved",
                     ![i].networkResponse = networkResponse ]
  /\ UNCHANGED << caches, pendingPuts, lifecycleVars, pageVars >>

\* networkFirstNavigation, after await fetch(request) resolved.
NavigationFetched(i, networkResponse) ==
  /\ h[i].pc = "fetch"
  /\ Strategy(i) = "networkFirstNavigation"
  /\ IF Ok(networkResponse)
     THEN h' = [ h EXCEPT ![i].pc = "open",
                          ![i].fetched = "resolved",
                          ![i].networkResponse = networkResponse ]
     ELSE h' = [ Return(i, networkResponse, "network") EXCEPT
                   ![i].fetched = "resolved",
                   ![i].networkResponse = networkResponse ]
  /\ UNCHANGED << caches, pendingPuts, lifecycleVars, pageVars >>

\* networkFirstNavigation that keeps the pages in a store of their own.
NavigationOpened_PagesStore(i) ==
  /\ h[i].pc = "open"
  /\ Strategy(i) = "networkFirstNavigation"
  /\ caches' = CachesOpen(caches, "restaurant-manager-pages")
  /\ pendingPuts' = pendingPuts \cup
       { [ by |-> i, cache |-> "restaurant-manager-pages",
           request |-> h[i].request,
           response |-> Clone(h[i].networkResponse) ] }
  /\ h' = [ Return(i, h[i].networkResponse, "network") EXCEPT ![i].put = TRUE ]
  /\ UNCHANGED << lifecycleVars, pageVars >>

\* networkFirstNavigation, after await caches.open(CACHE_NAME).
NavigationOpened(i) ==
  /\ h[i].pc = "open"
  /\ Strategy(i) = "networkFirstNavigation"
  /\ caches' = CachesOpen(caches, CACHE_NAME)
  /\ pendingPuts' = pendingPuts \cup
       { [ by |-> i, cache |-> CACHE_NAME, request |-> h[i].request,
           response |-> Clone(h[i].networkResponse) ] }
  /\ h' = [ Return(i, h[i].networkResponse, "network") EXCEPT ![i].put = TRUE ]
  /\ UNCHANGED << lifecycleVars, pageVars >>

\* networkFirstNavigation, after await fetch(request) threw.
NavigationFetchFailed(i) ==
  /\ h[i].pc = "fetch"
  /\ Strategy(i) = "networkFirstNavigation"
  /\ h' = [ h EXCEPT ![i].pc = "fallback", ![i].fetched = "threw" ]
  /\ UNCHANGED << caches, pendingPuts, lifecycleVars, pageVars >>

\* networkFirstNavigation with the last fallback of networkFirst.
NavigationFallback_Json(i) ==
  /\ h[i].pc = "fallback"
  /\ Strategy(i) = "networkFirstNavigation"
  /\ LET cachedResponse == CachesMatch(caches, h[i].request)
     IN IF cachedResponse # Undefined
        THEN h' = Return(i, cachedResponse, "cache")
        ELSE h' = Return(i, OfflineJson, "synthetic")
  /\ UNCHANGED << caches, pendingPuts, lifecycleVars, pageVars >>

\* networkFirstNavigation, after await caches.match(request) in the catch
\* block.
NavigationFallback(i) ==
  /\ h[i].pc = "fallback"
  /\ Strategy(i) = "networkFirstNavigation"
  /\ LET cachedResponse == CachesMatch(caches, h[i].request)
     IN IF cachedResponse # Undefined
        THEN h' = Return(i, cachedResponse, "cache")
        ELSE h' = Return(i, OfflinePage, "synthetic")
  /\ UNCHANGED << caches, pendingPuts, lifecycleVars, pageVars >>

\* A cache.put that nobody awaits settles: the entry is written, or the put
\* is rejected and the rejection is unhandled.
PutSettled(p) ==
  /\ p \in pendingPuts
  /\ caches' = CachePut(caches, p.cache, p.request, p.response)
  /\ pendingPuts' = pendingPuts \ {p}
  /\ UNCHANGED << h, lifecycleVars, pageVars >>

(* ---------------------------------------------------------------------- *)
(* Install and activate                                                    *)
(* ---------------------------------------------------------------------- *)

PrecacheIndex == 1..Len(PRECACHE_URLS)

PrecacheRequest(n) == Request(SelfOrigin, PRECACHE_URLS[n], "cors", "GET")

\* The response of the origin's server to a precache request that succeeds.
PrecachedResponse == Response(200, "server", <<"v1">>)

\* The install listener calls caches.open(CACHE_NAME).
InstallEvent ==
  /\ swState = "parsed"
  /\ swState' = "install:open"
  /\ UNCHANGED << caches, precache, skipWaitingCalls, cacheNames, deleting,
                  claimed, h, pendingPuts, pageVars >>

\* caches.open resolved: cache.add(url) is called for every precache URL.
InstallOpened ==
  /\ swState = "install:open"
  /\ caches' = CachesOpen(caches, CACHE_NAME)
  /\ precache' = [ n \in PrecacheIndex |-> "pending" ]
  /\ swState' = "install:precache"
  /\ UNCHANGED << skipWaitingCalls, cacheNames, deleting, claimed, h,
                  pendingPuts, pageVars >>

\* cache.add(url) fetched a 2xx response and stored it.
PrecacheAdded(n) ==
  /\ swState = "install:precache"
  /\ precache[n] = "pending"
  /\ caches' = CachePut(caches, CACHE_NAME, PrecacheRequest(n), PrecachedResponse)
  /\ precache' = [ precache EXCEPT ![n] = "added" ]
  /\ UNCHANGED << swState, skipWaitingCalls, cacheNames, deleting, claimed, h,
                  pendingPuts, pageVars >>

\* A precache failure that is not caught (as with cache.addAll): the promise
\* given to waitUntil rejects and the worker is discarded.
PrecacheFailed_Abort(n) ==
  /\ swState = "install:precache"
  /\ precache[n] = "pending"
  /\ precache' = [ precache EXCEPT ![n] = "failed" ]
  /\ swState' = "redundant"
  /\ UNCHANGED << caches, skipWaitingCalls, cacheNames, deleting, claimed, h,
                  pendingPuts, pageVars >>

\* cache.add(url) rejected (the fetch threw or the response was not 2xx):
\* the catch logs a warning.
PrecacheFailed(n) ==
  /\ swState = "install:precache"
  /\ precache[n] = "pending"
  /\ precache' = [ precache EXCEPT ![n] = "failed" ]
  /\ UNCHANGED << caches, swState, skipWaitingCalls, cacheNames, deleting,
                  claimed, h, pendingPuts, pageVars >>

\* Promise.allSettled resolved: self.skipWaiting() is called and the
\* promise given to waitUntil resolves.
InstallSettled ==
  /\ swState = "install:precache"
  /\ \A n \in PrecacheIndex : precache[n] \in {"added", "failed"}
  /\ skipWaitingCalls' = skipWaitingCalls + 1
  /\ swState' = "installed"
  /\ UNCHANGED << caches, precache, cacheNames, deleting, claimed, h,
                  pendingPuts, pageVars >>

\* The activate listener calls caches.keys().
ActivateEvent ==
  /\ swState = "installed"
  /\ swState' = "activate:keys"
  /\ UNCHANGED << caches, precache, skipWaitingCalls, cacheNames, deleting,
                  claimed, h, pendingPuts, pageVars >>

\* The filter left out: every store is deleted.
OldCaches_Unfiltered(names) == names

\* cacheNames.filter((name) => name !== CACHE_NAME)
OldCaches(names) == { name \in names : name # CACHE_NAME }

\* caches.keys() resolved: caches.delete is called for every other name.
ActivateKeys ==
  /\ swState = "activate:keys"
  /\ cacheNames' = CacheNames(caches)
  /\ deleting' = OldCaches(CacheNames(caches))
  /\ swState' = "activate:delete"
  /\ UNCHANGED << caches, precache, skipWaitingCalls, claimed, h, pendingPuts, pageVars >>

\* One caches.delete(name) resolved.
CacheDeleted(name) ==
  /\ swState = "activate:delete"
  /\ name \in deleting
  /\ caches' = CachesDelete(caches, name)
  /\ deleting' = deleting \ {name}
  /\ UNCHANGED << swState, precache, skipWaitingCalls, cacheNames, claimed, h,
                  pendingPuts, pageVars >>

\* clients.claim() called without waiting for the deletions (the promise of
\* Promise.all not returned).
ActivateClaimed_NoWait ==
  /\ swState = "activate:delete"
  /\ claimed = 0
  /\ claimed' = claimed + 1
  /\ swState' = IF deleting = {} THEN "activated" ELSE swState
  /\ UNCHANGED << caches, precache, skipWaitingCalls, cacheNames, deleting, h,
                  pendingPuts, pageVars >>

\* Promise.all resolved: self.clients.claim() is called and the promise
\* given to waitUntil resolves.
ActivateClaimed ==
  /\ swState = "activate:delete"
  /\ deleting = {}
  /\ claimed' = claimed + 1
  /\ swState' = "activated"
  /\ UNCHANGED << caches, precache, skipWaitingCalls, cacheNames, deleting, h,
                  pendingPuts, pageVars >>

(* ---------------------------------------------------------------------- *)
(* The page script: auto-refresh                                           *)
(* ---------------------------------------------------------------------- *)

\* null, where a timer ID is expected (the IDs of the browser are positive).
Null == 0

\* null or undefined, where a function is expected.
NoCallback == "none"

\* The functions the pages pass as callbacks.
Callbacks == {"refreshOrders", "refreshTables"}

\* Number of timers the browser hands out in one run.
MaxTimers == 3

\* The module state the auto-refresh functions read and write.
RefreshState ==
  [ autoRefreshInterval |-> autoRefreshInterval,
    autoRefreshCallback |-> autoRefreshCallback,
    intervals |-> intervals,
    nextTimerId |-> nextTimerId ]

\* clearInterval(id)
ClearInterval(timers, id) == { t \in timers : t.id # id }

stopAutoRefresh(st) ==
  IF st.autoRefreshInterval # Null
  THEN [ st EXCEPT !.intervals = ClearInterval(@, st.autoRefreshInterval),
                   !.autoRefreshInterval = Null,
                   !.autoRefreshCallback = NoCallback ]
  ELSE st

\* startAutoRefresh without the call of stopAutoRefresh.
startAutoRefresh_NoStop(st, callback) ==
  [ st EXCEPT !.autoRefreshCallback = callback,
              !.autoRefreshInterval = st.nextTimerId,
              !.intervals = @ \cup {[id |-> st.nextTimerId, callback |-> callback]},
              !.nextTimerId = @ + 1 ]

\* setInterval returns a new ID; the timer keeps the callback it closed over.
startAutoRefresh(st, callback) ==
  LET stopped == stopAutoRefresh(st)
  IN [ stopped EXCEPT
         !.autoRefreshCallback = callback,
         !.autoRefreshInterval = stopped.nextTimerId,
         !.intervals = @ \cup {[id |-> stopped.nextTimerId, callback |-> callback]},
         !.nextTimerId = @ + 1 ]

isAutoRefreshActive(st) == st.autoRefreshInterval # Null

\* toggleAutoRefresh(callback): the state it leaves and the value it returns.
toggleAutoRefresh(st, callback) ==
  IF isAutoRefreshActive(st)
  THEN [ state |-> stopAutoRefresh(st), returned |-> "false" ]
  ELSE LET cb == IF callback # NoCallback THEN callback
                 ELSE st.autoRefreshCallback
       IN IF cb # NoCallback
          THEN [ state |-> startAutoRefresh(st, cb), returned |-> "true" ]
          ELSE [ state |-> st, returned |-> "false" ]

\* The module state becomes st.
SetRefreshState(st) ==
  /\ autoRefreshInterval' = st.autoRefreshInterval
  /\ autoRefreshCallback' = st.autoRefreshCallback
  /\ intervals' = st.intervals
  /\ nextTimerId' = st.nextTimerId

\* A page calls startAutoRefresh(callback).
StartAutoRefresh(callback) ==
  /\ nextTimerId <= MaxTimers
  /\ SetRefreshState(startAutoRefresh(RefreshState, callback))
  /\ lastCall' = [ fn |-> "startAutoRefresh", callback |-> callback,
                   wasActive |-> isAutoRefreshActive(RefreshState),
                   returned |-> "undefined" ]
  /\ startedWith' = callback
  /\ UNCHANGED << documentHidden, navigatorOnLine, lastTick, debounceVars,
                  swVars, installVars, modalVars >>

\* A page calls stopAutoRefresh().
StopAutoRefresh ==
  /\ SetRefreshState(stopAutoRefresh(RefreshState))
  /\ lastCall' = [ fn |-> "stopAutoRefresh", callback |-> NoCallback,
                   wasActive |-> isAutoRefreshActive(RefreshState),
                   returned |-> "undefined" ]
  /\ UNCHANGED << startedWith, documentHidden, navigatorOnLine, lastTick,
                  debounceVars, swVars,
                  installVars, modalVars >>

\* A page calls toggleAutoRefresh(callback), or toggleAutoRefresh() when
\* callback is NoCallback.
ToggleAutoRefresh(callback) ==
  /\ nextTimerId <= MaxTimers
  /\ LET toggled == toggleAutoRefresh(RefreshState, callback)
     IN /\ SetRefreshState(toggled.state)
        /\ lastCall' = [ fn |-> "toggleAutoRefresh", callback |-> callback,
                         wasActive |-> isAutoRefreshActive(RefreshState),
                         returned |-> toggled.returned ]
        /\ startedWith' = IF toggled.returned = "true"
                          THEN toggled.state.autoRefreshCallback
                          ELSE startedWith
  /\ UNCHANGED << documentHidden, navigatorOnLine, lastTick, debounceVars,
                  swVars, installVars, modalVars >>

\* The interval callback without its guard: every tick calls the callback.
IntervalTick_Unguarded(t) ==
  /\ t \in intervals
  /\ lastTick' = [ id |-> t.id, invoked |-> t.callback ]
  /\ UNCHANGED << autoRefreshInterval, autoRefreshCallback, intervals,
                  nextTimerId, documentHidden, navigatorOnLine, lastCall,
                  startedWith, debounceVars, swVars,
                  installVars, modalVars >>

\* An interval timer fires: the callback it closed over is called when the
\* tab is visible and the browser online.
IntervalTick(t) ==
  /\ t \in intervals
  /\ lastTick' = [ id |-> t.id,
                   invoked |-> IF ~documentHidden /\ navigatorOnLine
                               THEN t.callback ELSE NoCallback ]
  /\ UNCHANGED << autoRefreshInterval, autoRefreshCallback, intervals,
                  nextTimerId, documentHidden, navigatorOnLine, lastCall,
                  startedWith, debounceVars, swVars,
                  installVars, modalVars >>

\* The tab is hidden or shown: the visibilitychange listener does nothing.
VisibilityChange ==
  /\ documentHidden' = ~documentHidden
  /\ UNCHANGED << autoRefreshInterval, autoRefreshCallback, intervals,
                  nextTimerId, navigatorOnLine, lastCall, startedWith,
                  lastTick, debounceVars, swVars,
                  installVars, modalVars >>

\* The browser goes offline or online.
ConnectivityChange ==
  /\ navigatorOnLine' = ~navigatorOnLine
  /\ UNCHANGED << autoRefreshInterval, autoRefreshCallback, intervals,
                  nextTimerId, documentHidden, lastCall, startedWith,
                  lastTick, debounceVars, swVars,
                  installVars, modalVars >>

(* ---------------------------------------------------------------------- *)
(* The page script: debounce                                               *)
(* ---------------------------------------------------------------------- *)

\* Largest delay, in units of the timer clock, a function is debounced with.
MaxDelay == 2

\* The time at which the clock of the model stops.
MaxTime == 4

\* The argument lists the debounced function is called with.
DebounceArgs == {"a", "b"}

NoArgs == "none"

\* Nothing has been called yet.
NoCalls ==
  [ called |-> FALSE, callTime |-> 0, callArgs |-> NoArgs,
    cancelled |-> FALSE,          \* cancel() was called since that call
    runs |-> 0,                   \* runs of fn since that call
    runArgs |-> NoArgs, runTime |-> 0,
    ranCancelled |-> FALSE ]      \* fn ran although cancel() had been called

\* The closure state of one debounced function, with the browser's timers.
DebounceState ==
  [ timerId |-> timerId, timeouts |-> timeouts, nextTimerId |-> nextTimerId ]

\* clearTimeout(id)
ClearTimeout(timers, id) == { t \in timers : t.id # id }

\* debounced(...args) without the clearTimeout of the pending timer.
debounced_NoClear(st, args, time) ==
  [ st EXCEPT
      !.timerId = st.nextTimerId,
      !.timeouts = @ \cup { [ id |-> st.nextTimerId, args |-> args,
                              due |-> time + delay ] },
      !.nextTimerId = @ + 1 ]

\* debounced(...args), called at the given time: setTimeout returns a new ID
\* and the timer keeps the args it closed over.
debounced(st, args, time) ==
  LET cleared == IF st.timerId # Null
                 THEN ClearTimeout(st.timeouts, st.timerId)
                 ELSE st.timeouts
  IN [ st EXCEPT
         !.timerId = st.nextTimerId,
         !.timeouts = cleared \cup { [ id |-> st.nextTimerId, args |-> args,
                                       due |-> time + delay ] },
         !.nextTimerId = @ + 1 ]

\* debounced.cancel()
cancel(st) ==
  IF st.timerId # Null
  THEN [ st EXCEPT !.timeouts = ClearTimeout(@, st.timerId),
                   !.timerId = Null ]
  ELSE st

SetDebounceState(st) ==
  /\ timerId' = st.timerId
  /\ timeouts' = st.timeouts
  /\ nextTimerId' = st.nextTimerId

\* A page calls the debounced function.
DebouncedCall(args) ==
  /\ nextTimerId <= MaxTimers
  /\ SetDebounceState(debounced(DebounceState, args, now))
  /\ quiet' = [ NoCalls EXCEPT !.called = TRUE, !.callTime = now,
                               !.callArgs = args ]
  /\ UNCHANGED << delay, now, refreshVars, swVars,
                  installVars, modalVars >>

\* A page calls debounced.cancel().
DebouncedCancel ==
  /\ SetDebounceState(cancel(DebounceState))
  /\ quiet' = [ quiet EXCEPT !.cancelled = TRUE ]
  /\ UNCHANGED << delay, now, refreshVars, swVars,
                  installVars, modalVars >>

\* A timeout that is due fires (at its time or later): timerId becomes null
\* and fn is applied to the args of the call that set the timer.
TimeoutFires(t) ==
  /\ t \in timeouts
  /\ now >= t.due
  /\ timeouts' = timeouts \ {t}
  /\ timerId' = Null
  /\ quiet' = [ quiet EXCEPT !.runs = @ + 1, !.runArgs = t.args,
                             !.runTime = now,
                             !.ranCancelled = quiet.cancelled ]
  /\ UNCHANGED << delay, now, nextTimerId, refreshVars, swVars,
                  installVars, modalVars >>

\* The clock advances.
TimePasses ==
  /\ now < MaxTime
  /\ now' = now + 1
  /\ UNCHANGED << delay, timerId, timeouts, quiet, nextTimerId, refreshVars,
                  swVars, installVars, modalVars >>

(* ---------------------------------------------------------------------- *)
(* The page script: the install prompt                                     *)
(* ---------------------------------------------------------------------- *)

\* Number of beforeinstallprompt events the browser fires in one run.
MaxPromptEvents == 2

\* Number of calls of promptInstall in one run.
MaxPromptCalls == 2

PromptEvents == 1..MaxPromptEvents

InstallCalls == 1..MaxPromptCalls

\* A call of promptInstall nobody has made yet.
IdleCall == [ pc |-> "idle", event |-> Null, returned |-> "pending" ]

\* The browser fires beforeinstallprompt: the listener keeps the event.
BeforeInstallPrompt ==
  /\ nextPromptEvent <= MaxPromptEvents
  /\ deferredInstallPrompt' = nextPromptEvent
  /\ nextPromptEvent' = nextPromptEvent + 1
  /\ UNCHANGED << prompts, userChoice, installCalls, nextTimerId, refreshVars,
                  debounceVars, modalVars, swVars >>

\* The browser fires appinstalled: the listener drops the event.
AppInstalled ==
  /\ deferredInstallPrompt' = Null
  /\ UNCHANGED << nextPromptEvent, prompts, userChoice, installCalls,
                  nextTimerId, refreshVars, debounceVars, modalVars, swVars >>

\* promptInstall() is called (by a page script or by a click on the install
\* button) and runs to its await, or to its return when no event is kept.
\* A prompt() that is not the first on its event fails: it throws, and the
\* call of promptInstall rejects (throws = TRUE), or it returns a promise
\* that rejects, and the call goes on to the await (throws = FALSE).
PromptInstall(c, throws) ==
  /\ installCalls[c].pc = "idle"
  /\ \A b \in InstallCalls : b < c => installCalls[b].pc # "idle"
  /\ IF deferredInstallPrompt = Null
     THEN /\ ~throws
          /\ installCalls' = [ installCalls EXCEPT
                                 ![c] = [ pc |-> "done", event |-> Null,
                                          returned |-> "false" ] ]
          /\ prompts' = prompts
     ELSE /\ throws => prompts[deferredInstallPrompt] >= 1
          /\ prompts' = [ prompts EXCEPT ![deferredInstallPrompt] = @ + 1 ]
          /\ installCalls' = [ installCalls EXCEPT
                                 ![c] = IF throws
                                        THEN [ pc |-> "done",
                                               event |-> deferredInstallPrompt,
                                               returned |-> "rejected" ]
                                        ELSE [ pc |-> "await",
                                               event |-> deferredInstallPrompt,
                                               returned |-> "pending" ] ]
  /\ UNCHANGED << deferredInstallPrompt, nextPromptEvent, userChoice,
                  nextTimerId, refreshVars, debounceVars, modalVars, swVars >>

\* The user answers the prompt of an event: its userChoice resolves.
UserChooses(e, outcome) ==
  /\ prompts[e] >= 1
  /\ userChoice[e] = "pending"
  /\ userChoice' = [ userChoice EXCEPT ![e] = outcome ]
  /\ UNCHANGED << deferredInstallPrompt, nextPromptEvent, prompts,
                  installCalls, nextTimerId, refreshVars, debounceVars,
                  modalVars, swVars >>

\* promptInstall, after await deferredInstallPrompt.userChoice.
PromptInstallResumed(c) ==
  /\ installCalls[c].pc = "await"
  /\ userChoice[installCalls[c].event] # "pending"
  /\ deferredInstallPrompt' = Null
  /\ installCalls' = [ installCalls EXCEPT
                         ![c].pc = "done",
                         ![c].returned =
                           IF userChoice[installCalls[c].event] = "accepted"
                           THEN "true" ELSE "false" ]
  /\ UNCHANGED << nextPromptEvent, prompts, userChoice, nextTimerId,
                  refreshVars, debounceVars, modalVars, swVars >>

(* ---------------------------------------------------------------------- *)
(* The page script: modals                                                 *)
(* ---------------------------------------------------------------------- *)

\* The .modal-overlay elements of the page, in document order.
Modals == << "order-modal", "table-modal", "payment-modal" >>

ModalIds == { Modals[n] : n \in 1..Len(Modals) }

NoModal == "none"

\* What the modal functions read and write of the document.
ModalState ==
  [ activeModals |-> activeModals, bodyOverflow |-> bodyOverflow,
    animationFrames |-> animationFrames ]

\* openModal(id), for the id of an overlay of the page: the focus callback is
\* given to requestAnimationFrame.
openModal(st, id) ==
  [ st EXCEPT !.activeModals = @ \cup {id},
              !.bodyOverflow = "hidden",
              !.animationFrames = @ \cup {id} ]

\* closeModal(id), for the id of an overlay of the page.
closeModal(st, id) ==
  [ st EXCEPT !.activeModals = @ \ {id},
              !.bodyOverflow = "" ]

\* document.querySelectorAll('.modal-overlay.active'), in document order.
OpenModals(st) == SelectSeq(Modals, LAMBDA id : id \in st.activeModals)

SetModalState(st) ==
  /\ activeModals' = st.activeModals
  /\ bodyOverflow' = st.bodyOverflow
  /\ animationFrames' = st.animationFrames

\* A page calls openModal(id).
OpenModal(id) ==
  /\ SetModalState(openModal(ModalState, id))
  /\ UNCHANGED << focused, nextTimerId, refreshVars, debounceVars,
                  installVars, swVars >>

\* A page calls closeModal(id).
CloseModal(id) ==
  /\ SetModalState(closeModal(ModalState, id))
  /\ UNCHANGED << focused, nextTimerId, refreshVars, debounceVars,
                  installVars, swVars >>

\* A click on the background of an overlay that is active: the click
\* listener closes it (a click anywhere else changes nothing).
OverlayClick(id) ==
  /\ id \in activeModals
  /\ activeModals' = activeModals \ {id}
  /\ bodyOverflow' = ""
  /\ UNCHANGED << animationFrames, focused, nextTimerId, refreshVars,
                  debounceVars, installVars, swVars >>

\* The Escape key is pressed while an overlay is active: the keydown
\* listener closes the last active overlay of the document.
EscapeKey ==
  /\ Len(OpenModals(ModalState)) > 0
  /\ LET openModals == OpenModals(ModalState)
         topmost == openModals[Len(openModals)]
     IN activeModals' = activeModals \ {topmost}
  /\ bodyOverflow' = ""
  /\ UNCHANGED << animationFrames, focused, nextTimerId, refreshVars,
                  debounceVars, installVars, swVars >>

\* The animation frame callback of openModal(id) runs: the first focusable
\* element of the overlay gets the focus.
AnimationFrame(id) ==
  /\ id \in animationFrames
  /\ animationFrames' = animationFrames \ {id}
  /\ focused' = id
  /\ UNCHANGED << activeModals, bodyOverflow, nextTimerId, refreshVars,
                  debounceVars, installVars, swVars >>

(* ---------------------------------------------------------------------- *)
(* Specifications                                                          *)
(* ---------------------------------------------------------------------- *)

\* The page script has been evaluated and none of its functions called.
InitRefresh ==
  /\ autoRefreshInterval = Null
  /\ autoRefreshCallback = NoCallback
  /\ intervals = {}
  /\ documentHidden = FALSE
  /\ navigatorOnLine = TRUE
  /\ lastCall = [ fn |-> "none", callback |-> NoCallback, wasActive |-> FALSE,
                  returned |-> "undefined" ]
  /\ startedWith = NoCallback
  /\ lastTick = [ id |-> Null, invoked |-> NoCallback ]

\* No function has been debounced.
InitDebounce ==
  /\ delay = Null
  /\ timerId = Null
  /\ timeouts = {}
  /\ now = 0
  /\ quiet = NoCalls

\* initInstallPrompt has run and the browser has fired nothing.
InitInstall ==
  /\ deferredInstallPrompt = Null
  /\ nextPromptEvent = 1
  /\ prompts = [ e \in PromptEvents |-> 0 ]
  /\ userChoice = [ e \in PromptEvents |-> "pending" ]
  /\ installCalls = [ c \in InstallCalls |-> IdleCall ]

\* initModalListeners has run and no modal is open.
InitModals ==
  /\ activeModals = {}
  /\ bodyOverflow = ""
  /\ animationFrames = {}
  /\ focused = NoModal

InitPage ==
  /\ nextTimerId = 1
  /\ InitRefresh
  /\ InitDebounce
  /\ InitInstall
  /\ InitModals

\* No worker is registered: the page script alone.
InitNoWorker ==
  /\ caches = << >>
  /\ swState = "parsed"
  /\ precache = [ n \in PrecacheIndex |-> "idle" ]
  /\ skipWaitingCalls = 0
  /\ cacheNames = {}
  /\ deleting = {}
  /\ claimed = 0
  /\ h = [ i \in Slots |-> IdleSlot ]
  /\ pendingPuts = {}

InitAutoRefresh == InitNoWorker /\ InitPage

NextAutoRefresh ==
  \/ \E callback \in Callbacks : StartAutoRefresh(callback)
  \/ StopAutoRefresh
  \/ \E callback \in Callbacks \cup {NoCallback} : ToggleAutoRefresh(callback)
  \/ \E t \in intervals : IntervalTick(t)
  \/ VisibilityChange
  \/ ConnectivityChange

SpecAutoRefresh == InitAutoRefresh /\ [][NextAutoRefresh]_vars

\* debounce(fn, delay) has returned the debounced function.
InitDebounced ==
  /\ InitNoWorker
  /\ nextTimerId = 1
  /\ InitRefresh
  /\ delay \in 1..MaxDelay
  /\ timerId = Null
  /\ timeouts = {}
  /\ now = 0
  /\ quiet = NoCalls
  /\ InitInstall
  /\ InitModals

NextDebounce ==
  \/ \E args \in DebounceArgs : DebouncedCall(args)
  \/ DebouncedCancel
  \/ \E t \in timeouts : TimeoutFires(t)
  \/ TimePasses

SpecDebounce == InitDebounced /\ [][NextDebounce]_vars

NextInstallPrompt ==
  \/ BeforeInstallPrompt
  \/ AppInstalled
  \/ \E c \in InstallCalls, throws \in BOOLEAN : PromptInstall(c, throws)
  \/ \E e \in PromptEvents, outcome \in {"accepted", "dismissed"} :
       UserChooses(e, outcome)
  \/ \E c \in InstallCalls : PromptInstallResumed(c)

\* The page script alone, evaluated, with no event fired.
InitInstallPrompt == InitNoWorker /\ InitPage

SpecInstallPrompt == InitInstallPrompt /\ [][NextInstallPrompt]_vars

NextModals ==
  \/ \E id \in ModalIds : OpenModal(id)
  \/ \E id \in ModalIds : CloseModal(id)
  \/ \E id \in ModalIds : OverlayClick(id)
  \/ EscapeKey
  \/ \E id \in ModalIds : AnimationFrame(id)

\* The page script alone, evaluated, with no modal opened.
InitModalsPage == InitNoWorker /\ InitPage

SpecModals == InitModalsPage /\ [][NextModals]_vars

\* Paths of every class, with those that belong to two: an API path with a
\* static extension, and a path with an extension that is not at its end.
ApiExportJs == <<"/", "api", "/", "export", ".", "js">>
JsDirectory == <<"/", "static", "/", "app", ".", "js", "/", "history">>

RouterPaths == {AppJs, OrdersPage, ApiOrders, ApiExportJs, JsDirectory}

\* Every request the listener can see for those paths.
RouterRequests ==
  { Request(origin, pathname, mode, method) :
      origin \in {SelfOrigin, OtherOrigin}, pathname \in RouterPaths,
      mode \in Modes, method \in Methods }

OldCacheNames ==
  << "restaurant-manager-v0", "restaurant-manager-beta", "workbox-runtime",
     "legacy-assets" >>

\* The worker has been parsed and nothing has run; the origin holds some
\* stores of earlier versions and perhaps one with the current name.
InitLifecycle ==
  /\ \E k \in 0..MaxOldCaches, current \in BOOLEAN :
       caches = [ n \in 1..k |-> NewCache(OldCacheNames[n]) ]
                \o (IF current THEN << NewCache(CACHE_NAME) >> ELSE << >>)
  /\ swState = "parsed"
  /\ precache = [ n \in PrecacheIndex |-> "idle" ]
  /\ skipWaitingCalls = 0
  /\ cacheNames = {}
  /\ deleting = {}
  /\ claimed = 0
  /\ h = [ i \in Slots |-> IdleSlot ]
  /\ pendingPuts = {}
  /\ InitPage

NextLifecycle ==
  \/ InstallEvent
  \/ InstallOpened
  \/ \E n \in PrecacheIndex : PrecacheAdded(n)
  \/ \E n \in PrecacheIndex : PrecacheFailed(n)
  \/ InstallSettled
  \/ ActivateEvent
  \/ ActivateKeys
  \/ \E name \in deleting : CacheDeleted(name)
  \/ ActivateClaimed

SpecLifecycle == InitLifecycle /\ [][NextLifecycle]_vars

\* The pages of the strategy specification ask for two of the precache URLs.
RequestedPrecache ==
  { n \in PrecacheIndex : PRECACHE_URLS[n] \in {OrdersPage, AppJs} }

\* The worker is active: install stored some of the precache URLs (here any
\* of the two the pages ask for) and activate left the current store alone.
Init ==
  /\ \E added \in SUBSET RequestedPrecache :
       /\ precache = [ n \in PrecacheIndex |->
                         IF n \in added THEN "added" ELSE "failed" ]
       /\ caches = << [ name |-> CACHE_NAME,
                        entries |->
                          [ k \in { Key(PrecacheRequest(n)) : n \in added } |->
                              PrecachedResponse ] ] >>
  /\ swState = "activated"
  /\ skipWaitingCalls = 1
  /\ cacheNames = {CACHE_NAME}
  /\ deleting = {}
  /\ claimed = 1
  /\ h = [ i \in Slots |-> IdleSlot ]
  /\ pendingPuts = {}
  /\ InitPage

Next ==
  \/ \E i \in Slots, request \in Requests : FetchEvent(i, request)
  \/ \E i \in Slots : CacheFirstMatched(i)
  \/ \E i \in Slots, r \in NetworkResponses : CacheFirstFetched(i, r)
  \/ \E i \in Slots : CacheFirstOpened(i)
  \/ \E i \in Slots : CacheFirstFetchFailed(i)
  \/ \E i \in Slots, r \in NetworkResponses : NetworkFirstFetched(i, r)
  \/ \E i \in Slots : NetworkFirstOpened(i)
  \/ \E i \in Slots : NetworkFirstFetchFailed(i)
  \/ \E i \in Slots : NetworkFirstFallback(i)
  \/ \E i \in Slots, r \in NetworkResponses : NavigationFetched(i, r)
  \/ \E i \in Slots : NavigationOpened(i)
  \/ \E i \in Slots : NavigationFetchFailed(i)
  \/ \E i \in Slots : NavigationFallback(i)
  \/ \E p \in pendingPuts : PutSettled(p)

\* The fetch listener alone: events are dispatched and the strategies it
\* calls stay at their first await.
NextRouter == \E i \in Slots, request \in RouterRequests : FetchEvent(i, request)

SpecRouter == Init /\ [][NextRouter]_vars

\* The steps of the handler of event i: each is the settling of the promise
\* the handler awaits.
HandlerStep(i) ==
  \/ CacheFirstMatched(i)
  \/ \E r \in NetworkResponses : CacheFirstFetched(i, r)
  \/ CacheFirstOpened(i)
  \/ CacheFirstFetchFailed(i)
  \/ \E r \in NetworkResponses : NetworkFirstFetched(i, r)
  \/ NetworkFirstOpened(i)
  \/ NetworkFirstFetchFailed(i)
  \/ NetworkFirstFallback(i)
  \/ \E r \in NetworkResponses : NavigationFetched(i, r)
  \/ NavigationOpened(i)
  \/ NavigationFetchFailed(i)
  \/ NavigationFallback(i)

\* Every cache operation and every fetch a handler awaits settles.
SpecFair == Init /\ [][Next]_vars /\ \A i \in Slots : WF_vars(HandlerStep(i))

Spec == Init /\ [][Next]_vars

(* ---------------------------------------------------------------------- *)
(* Properties                                                              *)
(* ---------------------------------------------------------------------- *)

Strategies == {"cacheFirst", "networkFirst", "networkFirstNavigation"}

Dispatched(i) == h[i].pc # "idle"

\* Handler i takes a step.
Steps(i) == h'[i] # h[i]

\* Handler i returns in this step.
Returns(i) == h[i].pc # "done" /\ h'[i].pc = "done"

\* C1: every same-origin request the fetch listener sees is passed to
\* respondWith exactly once, with one of the three strategies, and two
\* requests with the same path and mode get the same strategy whatever
\* their method and whatever the cache held or the network did when each
\* was dispatched.
C1_OneStrategyPerRequest ==
  /\ \A i \in Slots :
       Dispatched(i) /\ h[i].request.origin = SelfOrigin =>
         /\ Len(h[i].respondWith) = 1
         /\ h[i].respondWith[1] \in Strategies
  /\ \A i, j \in Slots :
       /\ Dispatched(i) /\ Dispatched(j)
       /\ h[i].request.origin = SelfOrigin /\ h[j].request.origin = SelfOrigin
       /\ h[i].request.pathname = h[j].request.pathname
       /\ h[i].request.mode = h[j].request.mode
       => h[i].respondWith = h[j].respondWith

\* Two requests with the same path and mode and different methods, the
\* second dispatched after the first has changed the store.
C1_Witness ==
  \E i, j \in Slots :
    /\ Dispatched(i) /\ Dispatched(j)
    /\ i \in h[j].seen
    /\ h[i].request.origin = SelfOrigin
    /\ Key(h[i].request) = Key(h[j].request)
    /\ h[i].request.mode = h[j].request.mode
    /\ h[i].request.method # h[j].request.method
    /\ h[i].put /\ pendingPuts = {}
    /\ h[j].fetched = "threw"

\* C2: when caches.match finds an entry for the request of cacheFirst,
\* cacheFirst returns that entry, has called fetch zero times, and the step
\* changes neither the stores nor the puts in flight.
C2_CacheFirstHit ==
  [][ \A i \in Slots :
        /\ h[i].pc = "match"
        /\ Strategy(i) = "cacheFirst"
        /\ CachesMatch(caches, h[i].request) # Undefined
        /\ Steps(i)
        => /\ h'[i].pc = "done"
           /\ h'[i].result = CachesMatch(caches, h[i].request)
           /\ ~h'[i].rejected
           /\ h'[i].fetches = 0
           /\ h'[i].fetched = "no"
           /\ caches' = caches
           /\ pendingPuts' = pendingPuts ]_vars

\* cacheFirst has answered from the store without a fetch.
C2_Witness ==
  \E i \in Slots :
    /\ Done(i)
    /\ Strategy(i) = "cacheFirst"
    /\ h[i].from = "cache"
    /\ h[i].result = CachesMatch(caches, h[i].request)
    /\ h[i].fetches = 0

\* C3: in the step in which cacheFirst returns a 2xx network response, the
\* store holds a copy of that response under the request's key.
C3_StoredBeforeReturn ==
  [][ \A i \in Slots :
        /\ Returns(i)
        /\ StrategyOf(h'[i]) = "cacheFirst"
        /\ h'[i].from = "network"
        /\ Ok(h'[i].result)
        => CachesMatch(caches', h'[i].request) = h'[i].result ]_vars

\* C4: when the fetch of networkFirst resolved, networkFirst returns the
\* response the fetch resolved with, whatever its status and whatever the
\* store holds for the request.
C4_NetworkFirstLive ==
  \A i \in Slots :
    Done(i) /\ Strategy(i) = "networkFirst" /\ h[i].fetched = "resolved" =>
      /\ h[i].result = h[i].networkResponse
      /\ h[i].result \in NetworkResponses
      /\ h[i].from = "network"
      /\ ~h[i].rejected

\* networkFirst has returned an error response of the network while the
\* store holds a copy for the request.
C4_Witness ==
  \E i \in Slots :
    /\ Done(i)
    /\ Strategy(i) = "networkFirst"
    /\ h[i].fetched = "resolved"
    /\ h[i].result.status = 404
    /\ CachesMatch(caches, h[i].request) # Undefined

\* The put networkFirst makes for event i.
NetworkFirstPut(i) ==
  [ by |-> i, cache |-> CACHE_NAME, request |-> h'[i].request,
    response |-> h'[i].networkResponse ]

\* C5: networkFirst calls cache.put (with the request and the response, on
\* the current store) exactly when the fetch resolved, the method is GET
\* and the response is 2xx; every other step of networkFirst leaves the
\* stores and the puts in flight as they are; and the put, when it settles,
\* makes the response the store's entry for the request.
C5_NetworkFirstWrites ==
  [][ /\ \A i \in Slots :
           StrategyOf(h'[i]) = "networkFirst" /\ Steps(i) =>
             LET cond == /\ h'[i].fetched = "resolved"
                         /\ h'[i].request.method = "GET"
                         /\ Ok(h'[i].networkResponse)
                 puts == h'[i].put /\ ~h[i].put
             IN /\ Returns(i) => (h'[i].put <=> cond)
                /\ puts => /\ cond
                           /\ pendingPuts' = pendingPuts \cup {NetworkFirstPut(i)}
                           /\ CacheNames(caches') = CacheNames(caches) \cup {CACHE_NAME}
                /\ ~puts => caches' = caches /\ pendingPuts' = pendingPuts
      /\ \A p \in pendingPuts :
           p \notin pendingPuts' /\ Strategy(p.by) = "networkFirst" =>
             /\ p.request.method = "GET" /\ Ok(p.response)
             /\ CachesMatch(caches', p.request) = p.response ]_vars

\* networkFirst has answered a GET with a 2xx response and its put has
\* settled, and has answered a POST with a 2xx response without a put.
C5_Witness ==
  \E i, j \in Slots :
    /\ Done(i) /\ Strategy(i) = "networkFirst"
    /\ h[i].put
    /\ \A p \in pendingPuts : p.by # i
    /\ CachesMatch(caches, h[i].request) = h[i].networkResponse
    /\ Done(j) /\ Strategy(j) = "networkFirst"
    /\ h[j].request.method = "POST"
    /\ h[j].fetched = "resolved" /\ Ok(h[j].networkResponse)
    /\ ~h[j].put

\* The JSON text {"error": "You are offline and no cached data is
\* available."}, token by token.
OfflineJsonBody ==
  << "{", "\"error\"", ":",
     "\"You are offline and no cached data is available.\"", "}" >>

\* C6: when the fetch of networkFirst threw, networkFirst returns what
\* caches.match finds for the request (a 2xx response that a GET stored
\* under the request's URL) if it finds something, and otherwise a response
\* with status 503, Content-Type application/json and the offline JSON body.
C6_NetworkFirstOffline ==
  [][ \A i \in Slots :
        /\ Returns(i)
        /\ Strategy(i) = "networkFirst"
        /\ h[i].fetched = "threw"
        => LET cachedResponse == CachesMatch(caches, h[i].request)
           IN /\ ~h'[i].rejected
              /\ cachedResponse # Undefined =>
                   /\ h'[i].result = cachedResponse
                   /\ Ok(cachedResponse)
                   /\ h[i].request.method = "GET"
              /\ cachedResponse = Undefined =>
                   /\ h'[i].result.status = 503
                   /\ h'[i].result.contentType = "application/json"
                   /\ h'[i].result.body = OfflineJsonBody ]_vars

\* A network-first GET stored its 2xx response; a later request for the same
\* URL, whose fetch threw, was answered with that stored response.
C6_Witness ==
  \E i, j \in Slots :
    /\ Done(j) /\ Strategy(j) = "networkFirst" /\ h[j].put
    /\ Done(i) /\ Strategy(i) = "networkFirst" /\ h[i].fetched = "threw"
    /\ j \in h[i].seen
    /\ h[i].request = h[j].request
    /\ h[i].request.pathname = ApiOrders
    /\ h[i].from = "cache"
    /\ h[i].result = h[j].networkResponse

\* The page body holds the text and a button with the label.
HasText(body, text) == \E n \in 1..Len(body) : body[n] = text

HasButton(body, label) ==
  \E n \in 1..(Len(body) - 2) :
    /\ body[n] = "<button onclick=\"window.location.reload()\">"
    /\ body[n + 1] = label
    /\ body[n + 2] = "</button>"

\* C7: when the fetch of networkFirstNavigation threw, it returns what
\* caches.match finds for the request if it finds something, and otherwise
\* the offline page (with "You're Offline" and a "Try Again" button), status
\* 503 and Content-Type text/html; it never returns the JSON error body.
C7_NavigationOffline ==
  [][ \A i \in Slots :
        /\ Returns(i)
        /\ Strategy(i) = "networkFirstNavigation"
        /\ h[i].fetched = "threw"
        => LET cachedResponse == CachesMatch(caches, h[i].request)
           IN /\ ~h'[i].rejected
              /\ h'[i].result.body # OfflineJsonBody
              /\ h'[i].result.contentType # "application/json"
              /\ cachedResponse # Undefined => h'[i].result = cachedResponse
              /\ cachedResponse = Undefined =>
                   /\ h'[i].result.status = 503
                   /\ h'[i].result.contentType = "text/html"
                   /\ h'[i].result.body = OFFLINE_HTML
                   /\ HasText(h'[i].result.body, "You're Offline")
                   /\ HasButton(h'[i].result.body, "Try Again") ]_vars

\* Two navigations whose fetch threw: one answered with the cached page,
\* one with the offline page.
C7_Witness ==
  \E i, j \in Slots :
    /\ Done(i) /\ Strategy(i) = "networkFirstNavigation"
    /\ h[i].fetched = "threw" /\ h[i].from = "cache"
    /\ Done(j) /\ Strategy(j) = "networkFirstNavigation"
    /\ h[j].fetched = "threw" /\ h[j].from = "synthetic"
    /\ h[j].result.status = 503
    /\ HasText(h[j].result.body, "You're Offline")

\* The text "Offline <em dash> asset unavailable".
AssetUnavailableBody == <<"Offline ", "U+2014", " asset unavailable">>

\* C8: when caches.match found nothing and the fetch of cacheFirst threw,
\* cacheFirst resolves (does not reject) with status 503, Content-Type
\* text/plain and the body "Offline - asset unavailable", and the stores and
\* the puts in flight are unchanged; when the fetch resolved with a response
\* that is not 2xx, cacheFirst returns that response and makes no put.
C8_CacheFirstFailure ==
  [][ \A i \in Slots :
        /\ h[i].pc = "fetch"
        /\ Strategy(i) = "cacheFirst"
        /\ Steps(i)
        => /\ h'[i].fetched = "threw" =>
                /\ h'[i].pc = "done"
                /\ ~h'[i].rejected
                /\ h'[i].result.status = 503
                /\ h'[i].result.contentType = "text/plain"
                /\ h'[i].result.body = AssetUnavailableBody
                /\ ~h'[i].put
                /\ caches' = caches
                /\ pendingPuts' = pendingPuts
           /\ h'[i].fetched = "resolved" /\ ~Ok(h'[i].networkResponse) =>
                /\ h'[i].pc = "done"
                /\ ~h'[i].rejected
                /\ h'[i].result = h'[i].networkResponse
                /\ ~h'[i].put
                /\ caches' = caches
                /\ pendingPuts' = pendingPuts ]_vars

\* cacheFirst has answered one request with the 503 text response after a
\* miss and a fetch that threw, and another with the network's 404.
C8_Witness ==
  \E i, j \in Slots :
    /\ Done(i) /\ Strategy(i) = "cacheFirst" /\ h[i].fetched = "threw"
    /\ h[i].result = Response(503, "text/plain", AssetUnavailableBody)
    /\ CachesMatch(caches, h[i].request) = Undefined
    /\ Done(j) /\ Strategy(j) = "cacheFirst" /\ h[j].fetched = "resolved"
    /\ h[j].result.status = 404
    /\ ~h[j].put

\* C9: once a request for a static-asset path has been answered from the
\* network with a 2xx response, a later request for the same path whose
\* fetch cannot resolve gets the same status and body as the first.
C9_StaticRoundTrip ==
  \A i, j \in Slots :
    /\ Done(i) /\ Strategy(i) = "cacheFirst"
    /\ h[i].from = "network" /\ Ok(h[i].result)
    /\ Done(j) /\ Strategy(j) = "cacheFirst"
    /\ i \in h[j].seen
    /\ Key(h[j].request) = Key(h[i].request)
    /\ h[j].fetched # "resolved"
    => /\ h[j].result.status = h[i].result.status
       /\ h[j].result.body = h[i].result.body

\* C10: when the activate handler has finished, the only store is the one
\* named CACHE_NAME, with everything install added to it still in it: every
\* other store that caches.keys() listed is gone.
C10_ActivationPostState ==
  swState = "activated" =>
    /\ CacheNames(caches) = {CACHE_NAME}
    /\ Len(caches) = 1
    /\ \A name \in cacheNames : name # CACHE_NAME => name \notin CacheNames(caches)
    /\ \A n \in PrecacheIndex :
         precache[n] = "added" =>
           CachesMatch(caches, PrecacheRequest(n)) = PrecachedResponse

\* Activation has finished after an install that added some precache URLs,
\* with two stores of other names present when it began.
C10_Witness ==
  /\ swState = "activated"
  /\ claimed = 1
  /\ CACHE_NAME \in cacheNames
  /\ Cardinality(cacheNames) >= 3
  /\ \E n \in PrecacheIndex : precache[n] = "added"
  /\ \E n \in PrecacheIndex : precache[n] = "failed"

\* C11: after activation, whatever fetch events are handled and however
\* their steps interleave, there is at most one store, it is the one named
\* CACHE_NAME, and every put of a strategy is a put on that store.
C11_SingleStore ==
  /\ swState = "activated"
  /\ Len(caches) <= 1
  /\ CacheNames(caches) \subseteq {CACHE_NAME}
  /\ \A p \in pendingPuts : p.cache = CACHE_NAME

\* networkFirstNavigation and another strategy have each made a put, and
\* the puts have settled on the one store.
C11_Witness ==
  /\ Len(caches) = 1
  /\ pendingPuts = {}
  /\ \E i, j \in Slots :
       /\ Done(i) /\ Done(j) /\ h[i].put /\ h[j].put
       /\ Strategy(i) = "networkFirstNavigation"
       /\ Strategy(j) \in {"cacheFirst", "networkFirst"}
       /\ CachesMatch(caches, h[i].request) = h[i].networkResponse
       /\ CachesMatch(caches, h[j].request) = h[j].networkResponse

\* C12: for a request of another origin the fetch listener calls neither
\* respondWith nor a strategy, looks nothing up, fetches nothing and makes no
\* put: the step that dispatches it leaves the stores and the puts in flight
\* unchanged, and the event never takes another step.
C12_CrossOriginPassThrough ==
  [][ \A i \in Slots :
        Steps(i) /\ h'[i].request.origin # SelfOrigin =>
          /\ h[i].pc = "idle"
          /\ h'[i].pc = "passthrough"
          /\ h'[i].respondWith = << >>
          /\ h'[i].fetches = 0
          /\ h'[i].fetched = "no"
          /\ ~h'[i].put
          /\ h'[i].result = Undefined
          /\ caches' = caches
          /\ pendingPuts' = pendingPuts ]_vars

\* A cross-origin request has been dispatched and left alone while the store
\* holds an entry for the same path of the own origin.
C12_Witness ==
  \E i \in Slots :
    /\ h[i].pc = "passthrough"
    /\ h[i].request.origin = OtherOrigin
    /\ h[i].respondWith = << >>
    /\ \E j \in Slots : Done(j) /\ j # i
    /\ CachesMatch(caches, [h[i].request EXCEPT !.origin = SelfOrigin]) # Undefined

\* A strategy is running for event i.
InFlight(i) == h[i].pc \in {"match", "fetch", "open", "fallback"}

\* The promise given to respondWith resolved with a response.
Answered(i) == Done(i) /\ ~h[i].rejected /\ h[i].result # Undefined

\* C13: when every promise a handler awaits settles, every same-origin
\* request that was dispatched is answered with a response (of the network,
\* of the store, or a synthetic 503), and the promise of no strategy ever
\* rejects.
C13_AlwaysAnswered ==
  /\ [](\A i \in Slots : ~h[i].rejected)
  /\ \A i \in Slots : InFlight(i) ~> Answered(i)

\* Two handlers whose fetch threw have answered, one with a synthetic 503
\* and one from the store.
C13_Witness ==
  \E i, j \in Slots :
    /\ Answered(i) /\ h[i].fetched = "threw" /\ h[i].from = "synthetic"
    /\ h[i].result.status = 503
    /\ Answered(j) /\ h[j].fetched = "threw" /\ h[j].from = "cache"

\* C14: the handler of one event calls fetch at most once, whatever the
\* strategy and whatever the fetch did; a handler whose fetch threw has
\* called it exactly once and is waiting for the store or has answered.
C14_NoRetry ==
  \A i \in Slots :
    /\ h[i].fetches <= 1
    /\ h[i].fetched \in {"pending", "resolved", "threw"} => h[i].fetches = 1
    /\ h[i].fetched = "threw" =>
         /\ h[i].pc \in {"fallback", "done"}
         /\ Done(i) => h[i].from \in {"cache", "synthetic"}

\* A cache-first miss whose fetch threw and a network-first request answered
\* with a 404 have each fetched once.
C14_Witness ==
  \E i, j \in Slots :
    /\ Done(i) /\ Strategy(i) = "cacheFirst"
    /\ h[i].fetched = "threw" /\ h[i].fetches = 1
    /\ Done(j) /\ Strategy(j) # "cacheFirst"
    /\ h[j].fetched = "resolved" /\ h[j].result.status = 404
    /\ h[j].fetches = 1

\* C17: a step of networkFirstNavigation changes no store, and a put it made
\* changes the store when it settles only if the request's method is GET and
\* the response is 2xx: the put of a navigation with another method (the
\* code makes it, cache.put rejects it) writes nothing.
C17_NavigationWrites ==
  [][ /\ \A i \in Slots :
           StrategyOf(h'[i]) = "networkFirstNavigation" /\ Steps(i) =>
             /\ caches' = caches
             /\ h'[i].put /\ ~h[i].put => Ok(h'[i].networkResponse)
      /\ \A p \in pendingPuts :
           p \notin pendingPuts' /\ Strategy(p.by) = "networkFirstNavigation" =>
             /\ caches' # caches => p.request.method = "GET" /\ Ok(p.response)
             /\ p.request.method # "GET" => caches' = caches
             /\ p.request.method = "GET" =>
                  CachesMatch(caches', p.request) = p.response ]_vars

\* A POST navigation got a 2xx response, its put has settled, and the store
\* does not hold that response; a GET navigation's response is in the store.
C17_Witness ==
  \E i, j \in Slots :
    /\ Done(i) /\ Strategy(i) = "networkFirstNavigation"
    /\ h[i].request.method = "POST"
    /\ h[i].fetched = "resolved" /\ Ok(h[i].networkResponse)
    /\ h[i].put
    /\ pendingPuts = {}
    /\ Done(j) /\ Strategy(j) = "networkFirstNavigation"
    /\ h[j].request.method = "GET"
    /\ h[j].put
    /\ CachesMatch(caches, h[j].request) = h[j].networkResponse
    /\ h[i].networkResponse # h[j].networkResponse

\* Every precache attempt has settled.
PrecacheSettled == \A n \in PrecacheIndex : precache[n] \in {"added", "failed"}

\* C15: whichever precache URLs fail, the install handler does not fail: once
\* every attempt has settled it can finish; skipWaiting is called at most
\* once, only after every attempt has settled, and exactly once by the time
\* install has finished; and every URL that was added is in the store named
\* CACHE_NAME.
C15_InstallBestEffort ==
  /\ swState # "redundant"
  /\ swState = "install:precache" /\ PrecacheSettled => ENABLED InstallSettled
  /\ skipWaitingCalls <= 1
  /\ skipWaitingCalls = 1 => PrecacheSettled
  /\ swState \notin {"parsed", "install:open", "install:precache"} =>
       skipWaitingCalls = 1
  /\ \A n \in PrecacheIndex :
       precache[n] = "added" =>
         \E c \in 1..Len(caches) :
           /\ caches[c].name = CACHE_NAME
           /\ CacheMatch(caches[c], PrecacheRequest(n)) = PrecachedResponse

\* Install has finished although the page '/menu' and an icon failed, with
\* the other URLs added.
C15_Witness ==
  /\ swState = "installed"
  /\ skipWaitingCalls = 1
  /\ precache[3] = "failed"
  /\ precache[9] = "failed"
  /\ \A n \in PrecacheIndex \ {3, 9} : precache[n] = "added"

\* C16: clients.claim() is called only when every caches.delete has
\* resolved: in no state have the pages been claimed while a store with
\* another name than CACHE_NAME exists or a deletion is in flight.
C16_ClaimAfterDeletes ==
  claimed > 0 =>
    /\ claimed = 1
    /\ deleting = {}
    /\ \A name \in CacheNames(caches) : name = CACHE_NAME

\* The pages have been claimed after two stores of earlier versions were
\* deleted.
C16_Witness ==
  /\ claimed = 1
  /\ swState = "activated"
  /\ Cardinality(OldCaches(cacheNames)) = 2
  /\ CacheNames(caches) = {CACHE_NAME}

\* C18: after any calls of startAutoRefresh, stopAutoRefresh and
\* toggleAutoRefresh at most one interval timer of the module is live; a
\* live timer is the one the most recent start created (the newest ID, with
\* that start's callback) and the one autoRefreshInterval names; and
\* isAutoRefreshActive() is true exactly when a timer is live.
C18_SingleAutoRefresh ==
  /\ Cardinality(intervals) <= 1
  /\ isAutoRefreshActive(RefreshState) <=> intervals # {}
  /\ \A t \in intervals :
       /\ t.id = autoRefreshInterval
       /\ t.id = nextTimerId - 1
       /\ t.callback = startedWith
       /\ t.callback = autoRefreshCallback

\* startAutoRefresh was called while a refresh with another callback was
\* active, and the third timer the module created is the live one.
C18_Witness ==
  /\ lastCall.fn = "startAutoRefresh"
  /\ lastCall.wasActive
  /\ intervals = { [ id |-> 3, callback |-> "refreshTables" ] }
  /\ lastTick.invoked = "refreshOrders"

\* C19: after toggleAutoRefresh() without a callback, called while
\* auto-refresh was off and had been started before with a callback,
\* auto-refresh is on with that callback and the call returned true.
C19_ToggleResumes ==
  /\ lastCall.fn = "toggleAutoRefresh"
  /\ lastCall.callback = NoCallback
  /\ ~lastCall.wasActive
  /\ startedWith # NoCallback
  => /\ lastCall.returned = "true"
     /\ isAutoRefreshActive(RefreshState)
     /\ autoRefreshCallback = startedWith

\* C20: whatever the calls of the debounced function, the cancel() calls and
\* the timer expiries, at most one timeout is pending, and it is the one of
\* the most recent call (timerId names it); fn has run at most once since
\* the most recent call, with that call's arguments, no earlier than delay
\* after it, and never after a cancel() that followed it; and after a
\* cancel() nothing is pending.
C20_Debounce ==
  /\ Cardinality(timeouts) <= 1
  /\ timerId # Null <=> timeouts # {}
  /\ \A t \in timeouts :
       /\ t.id = timerId
       /\ quiet.called /\ ~quiet.cancelled /\ quiet.runs = 0
       /\ t.args = quiet.callArgs
       /\ t.due = quiet.callTime + delay
  /\ quiet.runs <= 1
  /\ quiet.runs = 1 =>
       /\ quiet.runArgs = quiet.callArgs
       /\ quiet.runTime >= quiet.callTime + delay
  /\ ~quiet.ranCancelled
  /\ quiet.cancelled /\ quiet.runs = 0 => timeouts = {}

\* The function was called with "a" and then, before the delay was over,
\* with "b"; fn has run once, with "b", delay after the second call.
C20_Witness ==
  /\ nextTimerId = 3
  /\ quiet.callArgs = "b"
  /\ quiet.callTime = 1
  /\ quiet.runs = 1
  /\ quiet.runArgs = "b"
  /\ quiet.runTime = 1 + delay
  /\ delay = 2

\* C21: the listener tests the API prefix first, then the extension, then
\* the mode: a same-origin request whose path starts with /api/ goes to
\* networkFirst whatever its extension and mode; any other whose path ends
\* in a static extension goes to cacheFirst whatever its mode; any other with
\* mode navigate goes to networkFirstNavigation; the rest go to networkFirst.
C21_ClassificationPrecedence ==
  \A i \in Slots :
    Dispatched(i) /\ h[i].request.origin = SelfOrigin =>
      LET pathname == h[i].request.pathname
          api == Len(pathname) >= 3 /\ pathname[1] = "/" /\ pathname[2] = "api"
                 /\ pathname[3] = "/"
          static == Len(pathname) >= 2 /\ pathname[Len(pathname) - 1] = "."
                    /\ pathname[Len(pathname)] \in StaticExtensions
          navigate == h[i].request.mode = "navigate"
      IN /\ api => h[i].respondWith = <<"networkFirst">>
         /\ ~api /\ static => h[i].respondWith = <<"cacheFirst">>
         /\ ~api /\ ~static /\ navigate =>
              h[i].respondWith = <<"networkFirstNavigation">>
         /\ ~api /\ ~static /\ ~navigate => h[i].respondWith = <<"networkFirst">>

\* A navigation to /api/export.js was given to networkFirst and a navigation
\* to /static/js/app.js to cacheFirst.
C21_Witness ==
  \E i, j \in Slots :
    /\ h[i].request = Request(SelfOrigin, ApiExportJs, "navigate", "GET")
    /\ h[i].respondWith = <<"networkFirst">>
    /\ h[j].request = Request(SelfOrigin, AppJs, "navigate", "GET")
    /\ h[j].respondWith = <<"cacheFirst">>

\* C22: when the fetch of networkFirst threw for a request whose method is
\* not GET, no step of the handler changes the stores or makes a put, and
\* the handler returns the 503 JSON error response, whatever the store holds
\* for the request's URL.
C22_NonGetOffline ==
  [][ \A i \in Slots :
        /\ Strategy(i) = "networkFirst"
        /\ h[i].request.method # "GET"
        /\ Steps(i)
        /\ h'[i].fetched = "threw"
        => /\ caches' = caches
           /\ pendingPuts' = pendingPuts
           /\ ~h'[i].put
           /\ ~h'[i].rejected
           /\ Returns(i) =>
                /\ h'[i].result =
                     Response(503, "application/json", OfflineJsonBody)
                /\ h'[i].from = "synthetic" ]_vars

\* A GET of /api/orders stored its response; a later POST to /api/orders,
\* whose fetch threw, was answered with the 503 JSON error response.
C22_Witness ==
  \E i, j \in Slots :
    /\ Done(j) /\ Strategy(j) = "networkFirst" /\ h[j].put
    /\ h[j].request.method = "GET"
    /\ j \in h[i].seen
    /\ Done(i) /\ Strategy(i) = "networkFirst" /\ h[i].fetched = "threw"
    /\ h[i].request.method = "POST"
    /\ Key(h[i].request) = Key(h[j].request)
    /\ CachesMatch(caches, h[j].request) = h[j].networkResponse
    /\ h[i].result.status = 503
    /\ h[i].result.body = OfflineJsonBody

\* The entries of the store called CACHE_NAME (none when it does not exist).
CurrentEntries(cs) ==
  IF \E n \in 1..Len(cs) : cs[n].name = CACHE_NAME
  THEN cs[CHOOSE n \in 1..Len(cs) : cs[n].name = CACHE_NAME].entries
  ELSE EmptyEntries

\* C23: whatever puts are in flight and however they interleave, the put of
\* a GET that settles makes its response the one entry of the store for its
\* key, replacing what an earlier put wrote, and leaves the other entries as
\* they are (so, of two puts for one key, the one that settles last decides
\* the entry); and a handler that made a put returns the response its own
\* fetch resolved with.
C23_LastWriteWins ==
  [][ /\ \A p \in pendingPuts :
           p \notin pendingPuts' /\ p.request.method = "GET" =>
             /\ CachesMatch(caches', p.request) = p.response
             /\ DOMAIN CurrentEntries(caches') =
                  DOMAIN CurrentEntries(caches) \cup {Key(p.request)}
             /\ \A k \in DOMAIN CurrentEntries(caches) :
                  k # Key(p.request) =>
                    CurrentEntries(caches')[k] = CurrentEntries(caches)[k]
             /\ Len(caches') = Len(caches)
      /\ \A i \in Slots :
           Returns(i) /\ h'[i].put =>
             /\ h'[i].result = h'[i].networkResponse
             /\ h'[i].from = "network" ]_vars

\* Two requests for one key were in flight together and fetched different
\* 2xx responses; both puts have settled, and the store holds the response of
\* the request that was dispatched first: its put settled last.
C23_Witness ==
  \E i, j \in Slots :
    /\ i < j
    /\ Done(i) /\ Done(j) /\ h[i].put /\ h[j].put
    /\ i \notin h[j].seen
    /\ h[i].request = h[j].request
    /\ h[i].networkResponse # h[j].networkResponse
    /\ h[i].result = h[i].networkResponse
    /\ h[j].result = h[j].networkResponse
    /\ pendingPuts = {}
    /\ CachesMatch(caches, h[i].request) = h[i].networkResponse

\* C24: a tick of a live timer invokes the timer's callback when the tab is
\* visible and the browser online at the tick, and invokes nothing
\* otherwise; a change of visibility or of connectivity leaves the timer, the
\* interval ID and the callback as they are; and whenever a timer is live
\* with the tab visible and the browser online, its next tick can invoke its
\* callback.
C24_TickGuard ==
  [][ /\ lastTick' # lastTick =>
           \E t \in intervals :
             /\ lastTick'.id = t.id
             /\ lastTick'.invoked =
                  IF ~documentHidden /\ navigatorOnLine THEN t.callback
                  ELSE NoCallback
             /\ intervals' = intervals
      /\ documentHidden' # documentHidden \/ navigatorOnLine' # navigatorOnLine =>
           /\ intervals' = intervals
           /\ autoRefreshInterval' = autoRefreshInterval
           /\ autoRefreshCallback' = autoRefreshCallback
           /\ isAutoRefreshActive(RefreshState) <=> autoRefreshInterval' # Null
      /\ \A t \in intervals :
           ~documentHidden /\ navigatorOnLine =>
             ENABLED (IntervalTick(t) /\ lastTick'.invoked = t.callback) ]_vars

\* The timer is live and its most recent tick, with the tab hidden, invoked
\* nothing.
C24_Witness ==
  /\ isAutoRefreshActive(RefreshState)
  /\ \E t \in intervals : t.id = lastTick.id
  /\ lastTick.invoked = NoCallback
  /\ documentHidden
  /\ navigatorOnLine

\* The responses the worker makes up itself.
SyntheticResponses == {AssetUnavailable, OfflineJson, OfflinePage}

\* C25: in every state, every entry of every store, and the response of
\* every put in flight, is a 2xx response the network gave (to a precache
\* request or to a strategy's fetch): never a response with another status,
\* never one of the worker's own 503 responses.
C25_OnlySuccessfulStored ==
  /\ \A n \in 1..Len(caches) :
       \A k \in DOMAIN caches[n].entries :
         /\ Ok(caches[n].entries[k])
         /\ caches[n].entries[k] \in NetworkResponses \cup {PrecachedResponse}
         /\ caches[n].entries[k] \notin SyntheticResponses
  /\ \A p \in pendingPuts :
       /\ Ok(p.response)
       /\ p.response \in NetworkResponses
       /\ p.response \notin SyntheticResponses

\* A request stored its 2xx response; a later request for the same URL was
\* answered with the network's 404, and the store still holds the 2xx
\* response.
C25_Witness ==
  \E i, j \in Slots :
    /\ Done(i) /\ h[i].put /\ h[i].request.method = "GET"
    /\ i \in h[j].seen
    /\ Done(j) /\ h[j].request = h[i].request
    /\ h[j].fetched = "resolved" /\ h[j].result.status = 404
    /\ pendingPuts = {}
    /\ CachesMatch(caches, h[j].request) = h[i].networkResponse

\* C26: prompt() is called at most once on each beforeinstallprompt event,
\* however the calls of promptInstall and the events interleave, and a call
\* of promptInstall returns true only when the user accepted the prompt of
\* its event.
C26_PromptOnce ==
  /\ \A e \in PromptEvents : prompts[e] <= 1
  /\ \A c \in InstallCalls :
       installCalls[c].returned = "true" =>
         userChoice[installCalls[c].event] = "accepted"

\* C27: document.body.style.overflow is 'hidden' exactly when at least one
\* modal overlay is active.
C27_ScrollLock == bodyOverflow = "hidden" <=> activeModals # {}

====
